---------------------------- MODULE Spec2Model ----------------------------
(***************************************************************************)
(* Model of the Anubhava face-chat application.                            *)
(*                                                                         *)
(*   face_recognition_module.py  FaceRecognitionManager: the identity      *)
(*                               store (known_names / known_encodings),    *)
(*                               its QMutex and its pickle file            *)
(*   main.py                     VideoThread: the capture loop, stop(),    *)
(*                               and the window's refresh_camera           *)
(*   chatbot.py                  ChatbotManager: get_response and the      *)
(*                               keyword categorizer                       *)
(*                                                                         *)
(* Two threads run: the capture thread (VideoThread.run) and the           *)
(* interactive thread (the Qt event loop).  Every Python statement that    *)
(* reads or writes shared state is one step of its thread.                 *)
(*                                                                         *)
(* A face signature (a 128-float vector in the program) is a point on a    *)
(* line; distances and the recognition threshold are in tenths, so that    *)
(* the threshold 0.6 is the integer 6.                                     *)
(***************************************************************************)
EXTENDS Integers, Sequences, FiniteSets, TLC

---------------------------------------------------------------------------
(* Bounds of the model *)

\* signatures are 0, 3, .., 3 * MaxSig (tenths)
MaxSig == 2
\* registration is offered while the store holds fewer entries than this
MaxStore == 2
\* faces detected in one frame of the capture loop
MaxFaces == 2
\* the attempt budget of one register_new_user call
MaxAttempts == 2

\* characters of one chat message
MaxMsgLen == 2
\* pieces of one text given to _categorize_message
MaxPieces == 2
\* turns kept in conversation_history before get_response is no longer offered
MaxHistory == 3

Names == {"a", "b"}
Sigs == {3 * i : i \in 0..MaxSig}
\* the value of a name variable holding Python's None
NoName == "None"

\* what one frame shows: the signatures of the faces detected in it, in
\* detection order
Frames == UNION {[1..n -> Sigs] : n \in 0..MaxFaces}
\* the frames with at most one face
OneFaceFrames == UNION {[1..n -> Sigs] : n \in 0..1}
\* a frame seen by register_new_user (at most two faces matter: the code
\* asks only whether there is exactly one)
RegFrames == UNION {[1..n -> Sigs] : n \in 0..2}

---------------------------------------------------------------------------
(* The external detector and numpy, as the code uses them *)

\* face_recognition.face_distance for one pair
Distance(x, y) == IF x > y THEN x - y ELSE y - x

\* face_recognition.face_distance(known_encodings, face_encoding)
face_distance(encodings, q) ==
    [i \in 1..Len(encodings) |-> Distance(encodings[i], q)]

\* face_recognition.compare_faces(known_encodings, face_encoding, tolerance)
compare_faces(encodings, q, tolerance) ==
    [i \in 1..Len(encodings) |-> Distance(encodings[i], q) <= tolerance]

\* a faulty variant: np.argmax where the code has np.argmin
argmax(ds) ==
    CHOOSE i \in 1..Len(ds) :
        /\ \A j \in 1..Len(ds) : ds[i] >= ds[j]
        /\ \A j \in 1..(i - 1) : ds[j] < ds[i]

\* np.argmin: the first index of a smallest element (of a non-empty array)
argmin(ds) ==
    CHOOSE i \in 1..Len(ds) :
        /\ \A j \in 1..Len(ds) : ds[i] <= ds[j]
        /\ \A j \in 1..(i - 1) : ds[j] > ds[i]

\* np.min
npmin(ds) == ds[argmin(ds)]

\* list.pop(index)
Pop(s, index) == SubSeq(s, 1, index - 1) \o SubSeq(s, index + 1, Len(s))

\* list.index(x): the first index holding x
IndexOf(s, x) == CHOOSE i \in 1..Len(s) : s[i] = x /\ \A j \in 1..(i - 1) : s[j] # x

\* x in list
Contains(s, x) == \E i \in 1..Len(s) : s[i] = x

\* self.recognition_threshold = 0.6, in tenths
recognition_threshold == 6

\* best_confidence = float('inf')
Infinity == 999

---------------------------------------------------------------------------
(* The pickle file of the store *)

NoFile == [exists |-> FALSE, ok |-> FALSE, names |-> <<>>, encodings |-> <<>>]
\* a file pickle.load cannot read (a write that failed part-way)
Corrupt == [exists |-> TRUE, ok |-> FALSE, names |-> <<>>, encodings |-> <<>>]
\* the file pickle.dump writes
Pickle(names, encodings) ==
    [exists |-> TRUE, ok |-> TRUE, names |-> names, encodings |-> encodings]

\* what load_database leaves in (known_names, known_encodings) for a file
LoadedNames(f) == IF f.exists /\ f.ok THEN f.names ELSE <<>>
LoadedEncodings(f) == IF f.exists /\ f.ok THEN f.encodings ELSE <<>>

\* the files a start of the application may find
InitFiles == {NoFile, Corrupt, Pickle(<<"a">>, <<0>>)}

---------------------------------------------------------------------------
(* chatbot.py: messages are sequences of characters *)

Alphabet == {" ", "H", "h", "i", "?", "x"}
Whitespace == {" "}
Messages == UNION {[1..n -> Alphabet] : n \in 0..MaxMsgLen}

\* the texts given to _categorize_message alone: up to MaxPieces pieces, each
\* a keyword, a part of one, or filler, written one after the other
Pieces ==
    {<<"h", "i">>, <<"g", "o", "o", "d">>, <<"b", "y", "e">>,
     <<"t", "h", "a", "n", "k", "s">>, <<"h", "e", "l", "p">>,
     <<"r", "a", "i", "n">>, <<"w", "h", "a", "t", " ">>, <<"t", "i", "m", "e">>,
     <<"x">>, <<"?">>}
RECURSIVE TextsOf(_)
TextsOf(n) ==
    IF n = 0 THEN {<<>>}
    ELSE TextsOf(n - 1) \cup {t \o p : t \in TextsOf(n - 1), p \in Pieces}
Texts == TextsOf(MaxPieces)

\* str.lower(), on the letters of the alphabet
LowerChar(c) == IF c = "H" THEN "h" ELSE c
Lower(m) == [i \in 1..Len(m) |-> LowerChar(m[i])]

\* str.strip(): whitespace removed at both ends
RECURSIVE LStrip(_)
LStrip(m) == IF Len(m) > 0 /\ m[1] \in Whitespace THEN LStrip(Tail(m)) ELSE m
RECURSIVE RStrip(_)
RStrip(m) ==
    IF Len(m) > 0 /\ m[Len(m)] \in Whitespace
    THEN RStrip(SubSeq(m, 1, Len(m) - 1)) ELSE m
Strip(m) == RStrip(LStrip(m))

\* keyword in message
Substring(k, m) ==
    \E i \in 0..(Len(m) - Len(k)) : SubSeq(m, i + 1, i + Len(k)) = k

\* self.keywords, in the order the dict enumerates its categories
keywords ==
    <<
      [category |-> "greetings",
       words |-> <<
            <<"h", "e", "l", "l", "o">>,
            <<"h", "i">>,
            <<"h", "e", "y">>,
            <<"g", "r", "e", "e", "t", "i", "n", "g", "s">>,
            <<"g", "o", "o", "d", " ", "m", "o", "r", "n", "i", "n", "g">>,
            <<"g", "o", "o", "d", " ", "a", "f", "t", "e", "r", "n", "o", "o", "n">>,
            <<"g", "o", "o", "d", " ", "e", "v", "e", "n", "i", "n", "g">>>>],
      [category |-> "personal_questions",
       words |-> <<
            <<"w", "h", "o", " ", "a", "r", "e", " ", "y", "o", "u">>,
            <<"w", "h", "a", "t", " ", "a", "r", "e", " ", "y", "o", "u">>,
            <<"t", "e", "l", "l", " ", "m", "e", " ", "a", "b", "o", "u", "t", " ", "y", "o", "u", "r", "s", "e", "l", "f">>,
            <<"y", "o", "u", "r", " ", "n", "a", "m", "e">>>>],
      [category |-> "compliments",
       words |-> <<
            <<"t", "h", "a", "n", "k", " ", "y", "o", "u">>,
            <<"t", "h", "a", "n", "k", "s">>,
            <<"g", "o", "o", "d", " ", "j", "o", "b">>,
            <<"w", "e", "l", "l", " ", "d", "o", "n", "e">>,
            <<"e", "x", "c", "e", "l", "l", "e", "n", "t">>,
            <<"a", "m", "a", "z", "i", "n", "g">>,
            <<"a", "w", "e", "s", "o", "m", "e">>>>],
      [category |-> "questions",
       words |-> <<
            <<"w", "h", "a", "t">>,
            <<"h", "o", "w">>,
            <<"w", "h", "y">>,
            <<"w", "h", "e", "n">>,
            <<"w", "h", "e", "r", "e">>,
            <<"w", "h", "o">>,
            <<"?">>>>],
      [category |-> "help_requests",
       words |-> <<
            <<"h", "e", "l", "p">>,
            <<"a", "s", "s", "i", "s", "t">>,
            <<"s", "u", "p", "p", "o", "r", "t">>,
            <<"c", "a", "n", " ", "y", "o", "u">>,
            <<"c", "o", "u", "l", "d", " ", "y", "o", "u">>,
            <<"w", "o", "u", "l", "d", " ", "y", "o", "u">>>>],
      [category |-> "goodbye",
       words |-> <<
            <<"b", "y", "e">>,
            <<"g", "o", "o", "d", "b", "y", "e">>,
            <<"s", "e", "e", " ", "y", "o", "u">>,
            <<"f", "a", "r", "e", "w", "e", "l", "l">>,
            <<"l", "a", "t", "e", "r">>,
            <<"t", "a", "k", "e", " ", "c", "a", "r", "e">>>>],
      [category |-> "weather",
       words |-> <<
            <<"w", "e", "a", "t", "h", "e", "r">>,
            <<"t", "e", "m", "p", "e", "r", "a", "t", "u", "r", "e">>,
            <<"r", "a", "i", "n">>,
            <<"s", "u", "n", "n", "y">>,
            <<"c", "l", "o", "u", "d", "y">>,
            <<"s", "t", "o", "r", "m">>>>],
      [category |-> "time",
       words |-> <<
            <<"t", "i", "m", "e">>,
            <<"c", "l", "o", "c", "k">>,
            <<"h", "o", "u", "r">>,
            <<"m", "i", "n", "u", "t", "e">>,
            <<"w", "h", "a", "t", " ", "t", "i", "m", "e">>>>],
      [category |-> "appreciation",
       words |-> <<
            <<"t", "h", "a", "n", "k", " ", "y", "o", "u">>,
            <<"t", "h", "a", "n", "k", "s">>,
            <<"a", "p", "p", "r", "e", "c", "i", "a", "t", "e">>,
            <<"g", "r", "a", "t", "e", "f", "u", "l">>>>]
    >>
\* self.responses: how many canned strings each category has
responses ==
    [greetings |-> 4, personal_questions |-> 3, compliments |-> 3,
     questions |-> 4, help_requests |-> 3, goodbye |-> 4, weather |-> 2,
     time |-> 2, appreciation |-> 3, default |-> 5]

\* score of one category: its keywords that occur in the message
Score(words, message) ==
    Cardinality({j \in 1..Len(words) : Substring(words[j], message)})

\* category_scores, by position in the enumeration of self.keywords
CategoryScores(message) ==
    [c \in 1..Len(keywords) |-> Score(keywords[c].words, message)]

\* a faulty variant: min where the code has max
LeastCategory(category_scores) ==
    CHOOSE c \in 1..Len(category_scores) :
        /\ \A d \in 1..Len(category_scores) : category_scores[d] >= category_scores[c]
        /\ \A d \in 1..(c - 1) : category_scores[d] > category_scores[c]

\* max(category_scores, key=category_scores.get): the first category, in
\* enumeration order, whose score is the largest
BestCategory(category_scores) ==
    CHOOSE c \in 1..Len(category_scores) :
        /\ \A d \in 1..Len(category_scores) : category_scores[d] <= category_scores[c]
        /\ \A d \in 1..(c - 1) : category_scores[d] < category_scores[c]

\* ChatbotManager._categorize_message
categorize_message(message) ==
    LET category_scores == CategoryScores(message)
        best_category == BestCategory(category_scores)
    IN  IF category_scores[best_category] > 0
        THEN keywords[best_category].category
        ELSE IF Substring(<<"?">>, message)
        THEN "questions"
        ELSE IF \/ Substring(<<"h", "e", "l", "p">>, message)
                \/ Substring(<<"a", "s", "s", "i", "s", "t">>, message)
                \/ Substring(<<"s", "u", "p", "p", "o", "r", "t">>, message)
        THEN "help_requests"
        ELSE "default"

\* "I didn't catch that. Could you please say something?"
EmptyPrompt ==
    [prompt |-> TRUE, hello |-> NoName, category |-> "none", choice |-> 0,
     tail |-> NoName]

\* a canned string of a category, with "Hello <name>! " before it when hello
\* is a name and " What do you think, <name>?" after it when tail is a name
Canned(category, choice, hello, tail) ==
    [prompt |-> FALSE, hello |-> hello, category |-> category, choice |-> choice,
     tail |-> tail]

NoCall == [message |-> <<>>, user_name |-> NoName, made |-> FALSE]

\* no call of _categorize_message alone has been made
NotCategorized == [message |-> <<>>, category |-> "none", made |-> FALSE]

---------------------------------------------------------------------------
VARIABLES
    \* FaceRecognitionManager
    known_names, known_encodings, mutex, db_file, backup_file,
    \* VideoThread
    running, cap, vt_pc, vt,
    \* the interactive thread: the operation in progress and its locals
    ui_pc, ui,
    \* the capture device: the threads that hold it open
    device,
    \* history of the current VideoThread: stop() has cleared its running flag
    stop_signalled,
    \* ChatbotManager
    conversation_history, session_context,
    \* the last get_response call: its arguments and the value it returned
    call, response,
    \* history of the session: the names that have sent a greeting since
    \* their context was last cleared
    greeted,
    \* the last call of _categorize_message alone: its text and its value
    categorized

store_vars == <<known_names, known_encodings, mutex, db_file, backup_file>>
thread_vars == <<running, cap, vt_pc, vt>>
ui_vars == <<ui_pc, ui>>
app_vars == <<store_vars, thread_vars, ui_vars, device, stop_signalled>>
chat_vars == <<conversation_history, session_context, call, response, greeted,
               categorized>>
vars == <<app_vars, chat_vars>>

\* the locals of identify_face
VtInit ==
    [frame |-> <<>>, i |-> 0, matches |-> <<>>, face_distances |-> <<>>,
     best_match_index |-> 0, name |-> NoName, face_names |-> <<>>]

\* the locals of the interactive thread's operation
UiInit ==
    [op |-> "none", name |-> NoName, attempt |-> 0, best_encoding |-> <<>>,
     best_confidence |-> Infinity, candidates |-> <<>>, index |-> 0,
     cap |-> "None", save_failed |-> FALSE, ret |-> "none", after |-> "none"]

Init ==
    /\ db_file \in InitFiles
    /\ backup_file = NoFile
    /\ known_names = LoadedNames(db_file)
    /\ known_encodings = LoadedEncodings(db_file)
    /\ mutex = "free"
    /\ running = FALSE
    /\ cap = "None"
    /\ vt_pc = "open"
    /\ vt = VtInit
    /\ ui_pc = "idle"
    /\ ui = UiInit
    /\ device = {}
    /\ stop_signalled = FALSE
    /\ conversation_history = <<>>
    /\ session_context = [n \in {} |-> 0]
    /\ call = NoCall
    \* no call made yet: response is read only when call.made
    /\ response = EmptyPrompt
    /\ greeted = {}
    /\ categorized = NotCategorized

---------------------------------------------------------------------------
(* VideoThread.run, with identify_face inlined at its call *)

\* an exception nobody catches leaves run(): the thread is gone, the loop
\* never reaches cap.release()
Alive == vt_pc # "crashed"

\* self.cap = cv2.VideoCapture(0); self.cap.set(...)
VtOpen ==
    /\ vt_pc = "open"
    /\ cap' = "open"
    /\ device' = device \cup {"cap"}
    /\ vt_pc' = "set_running"
    /\ UNCHANGED <<chat_vars, store_vars, running, vt, ui_vars, stop_signalled>>

\* self.running = True
VtSetRunning ==
    /\ vt_pc = "set_running"
    /\ running' = TRUE
    /\ vt_pc' = "loop"
    /\ UNCHANGED <<chat_vars, store_vars, cap, vt, ui_vars, device, stop_signalled>>

\* while self.running:
VtLoopTest ==
    /\ vt_pc = "loop"
    /\ vt_pc' = IF running THEN "read" ELSE "release"
    /\ UNCHANGED <<chat_vars, store_vars, running, cap, vt, ui_vars, device,
                   stop_signalled>>

\* ret, frame = self.cap.read(); if ret: identify_face(frame) up to the
\* detection of the faces (face_locations, face_encodings, face_names = []).
\* A failed read goes to msleep(50) and back to the loop test.
ReadFrame(ret, f) ==
    /\ vt_pc = "read"
    /\ IF ~ret
       THEN /\ vt_pc' = "loop"
            /\ vt' = vt
       ELSE IF f = <<>>
       THEN \* if not self.face_locations: return None
            /\ vt_pc' = "emit"
            /\ vt' = VtInit
       ELSE /\ vt_pc' = "compare"
            /\ vt' = [VtInit EXCEPT !.frame = f, !.i = 1]
    /\ UNCHANGED <<chat_vars, store_vars, running, cap, ui_vars, device, stop_signalled>>

\* the read fails, or the frame shows nobody or one person
VtRead ==
    \/ ReadFrame(FALSE, <<>>)
    \/ \E f \in OneFaceFrames : ReadFrame(TRUE, f)

\* the frame shows several people
VtReadCrowd ==
    \E f \in Frames \ OneFaceFrames : ReadFrame(TRUE, f)

\* matches = compare_faces(self.known_encodings, face_encoding, tolerance);
\* name = None
VtCompare ==
    /\ vt_pc = "compare"
    /\ vt' = [vt EXCEPT
                !.matches = compare_faces(known_encodings, vt.frame[vt.i],
                                          recognition_threshold),
                !.name = NoName]
    /\ vt_pc' = "test"
    /\ UNCHANGED <<chat_vars, store_vars, running, cap, ui_vars, device, stop_signalled>>

\* the value identify_face returns for the names it collected:
\* face_names[0] if that is a name, else None
FirstName(face_names) ==
    IF Len(face_names) > 0 /\ face_names[1] # NoName THEN face_names[1] ELSE NoName

\* self.face_names.append(name), then the next face; after the last face the
\* overlay is drawn (no shared state) and identify_face returns
AppendName(name) ==
    LET fn == Append(vt.face_names, name)
    IN  IF vt.i < Len(vt.frame)
        THEN /\ vt_pc' = "compare"
             /\ vt' = [VtInit EXCEPT !.frame = vt.frame, !.i = vt.i + 1,
                                     !.face_names = fn]
        ELSE /\ vt_pc' = "emit"
             /\ vt' = [VtInit EXCEPT !.frame = vt.frame, !.name = FirstName(fn),
                                     !.face_names = fn]

\* if True in matches and len(self.known_encodings) > 0:
VtTest ==
    /\ vt_pc = "test"
    /\ IF Contains(vt.matches, TRUE) /\ Len(known_encodings) > 0
       THEN /\ vt_pc' = "distance"
            /\ vt' = vt
       ELSE AppendName(NoName)
    /\ UNCHANGED <<chat_vars, store_vars, running, cap, ui_vars, device, stop_signalled>>

\* face_distances = face_distance(self.known_encodings, face_encoding);
\* best_match_index = np.argmin(face_distances)   (ValueError on an empty array)
VtDistance ==
    /\ vt_pc = "distance"
    /\ LET ds == face_distance(known_encodings, vt.frame[vt.i])
       IN  IF Len(ds) = 0
           THEN /\ vt_pc' = "crashed"
                /\ vt' = vt
           ELSE /\ vt_pc' = "pick"
                /\ vt' = [vt EXCEPT !.face_distances = ds,
                                    !.best_match_index = argmin(ds)]
    /\ UNCHANGED <<chat_vars, store_vars, running, cap, ui_vars, device, stop_signalled>>

\* if matches[best_match_index] and face_distances[best_match_index] < threshold:
\*     name = self.known_names[best_match_index]   (IndexError past the end)
VtPick ==
    /\ vt_pc = "pick"
    /\ LET b == vt.best_match_index
       IN  IF b > Len(vt.matches)
           THEN /\ vt_pc' = "crashed"
                /\ vt' = vt
           ELSE IF vt.matches[b] /\ vt.face_distances[b] < recognition_threshold
           THEN IF b > Len(known_names)
                THEN /\ vt_pc' = "crashed"
                     /\ vt' = vt
                ELSE AppendName(known_names[b])
           ELSE AppendName(NoName)
    /\ UNCHANGED <<chat_vars, store_vars, running, cap, ui_vars, device, stop_signalled>>

\* identify_face has returned vt.name: self.frame_ready.emit(frame);
\* self.user_detected.emit(user_name or ""); self.msleep(50)
\* (the attributes face_names, face_locations stay and are overwritten by the
\* next call before anything reads them)
VtEmit ==
    /\ vt_pc = "emit"
    /\ vt_pc' = "loop"
    /\ vt' = VtInit
    /\ UNCHANGED <<chat_vars, store_vars, running, cap, ui_vars, device, stop_signalled>>

\* if self.cap: self.cap.release(); run() returns
VtRelease ==
    /\ vt_pc = "release"
    /\ cap' = "released"
    /\ device' = device \ {"cap"}
    /\ vt_pc' = "finished"
    /\ UNCHANGED <<chat_vars, store_vars, running, vt, ui_vars, stop_signalled>>

\* the capture thread is inside the part of identify_face that reads the store
VtInStore == vt_pc \in {"compare", "test", "distance", "pick"}

\* the capture loop on frames of at most one face
VtNext ==
    \/ VtOpen \/ VtSetRunning \/ VtLoopTest \/ VtRead \/ VtCompare \/ VtTest
    \/ VtDistance \/ VtPick \/ VtEmit \/ VtRelease

---------------------------------------------------------------------------
(* FaceRecognitionManager.save_database, called by register_new_user and   *)
(* remove_user on the interactive thread; ui.after is where the caller     *)
(* continues                                                               *)

\* self.mutex.lock(): QMutex is not recursive, the call waits while the
\* mutex is held, by whichever thread
SvLock ==
    /\ Alive
    /\ ui_pc = "sv_lock"
    /\ mutex = "free"
    /\ mutex' = "ui"
    /\ ui_pc' = "sv_backup"
    /\ UNCHANGED <<chat_vars, known_names, known_encodings, db_file, backup_file, thread_vars,
                   ui, device, stop_signalled>>

\* a faulty variant: the rename to the backup name is left out and the file
\* is overwritten in place
SvBackupSkipped ==
    /\ Alive
    /\ ui_pc = "sv_backup"
    /\ ui_pc' = "sv_write"
    /\ UNCHANGED <<chat_vars, store_vars, thread_vars, ui, device, stop_signalled>>

\* if os.path.exists(path): os.rename(path, path + ".backup")
\* (an OSError from the rename goes to the except clause)
SvBackup ==
    /\ Alive
    /\ ui_pc = "sv_backup"
    /\ IF db_file.exists
       THEN \E renamed \in BOOLEAN :
               IF renamed
               THEN /\ backup_file' = db_file
                    /\ db_file' = NoFile
                    /\ ui_pc' = "sv_write"
                    /\ ui' = ui
               ELSE /\ UNCHANGED <<chat_vars, backup_file, db_file>>
                    /\ ui_pc' = "sv_unlock"
                    /\ ui' = [ui EXCEPT !.save_failed = TRUE]
       ELSE /\ UNCHANGED <<chat_vars, backup_file, db_file>>
            /\ ui_pc' = "sv_write"
            /\ ui' = ui
    /\ UNCHANGED <<chat_vars, known_names, known_encodings, mutex, thread_vars, device,
                   stop_signalled>>

\* with open(path, 'wb') as f: pickle.dump(data, f)
\* a failure leaves no new file (open failed) or an unreadable one
SvWrite ==
    /\ Alive
    /\ ui_pc = "sv_write"
    /\ \E written \in BOOLEAN, partial \in BOOLEAN :
          IF written
          THEN /\ ~partial
               /\ db_file' = Pickle(known_names, known_encodings)
               /\ ui' = ui
          ELSE /\ db_file' = IF partial THEN Corrupt ELSE db_file
               /\ ui' = [ui EXCEPT !.save_failed = TRUE]
    /\ ui_pc' = "sv_unlock"
    /\ UNCHANGED <<chat_vars, known_names, known_encodings, mutex, backup_file, thread_vars,
                   device, stop_signalled>>

\* finally: self.mutex.unlock(); save_database returns None, whatever
\* happened, and its caller goes on to `return True` (the caller's finally
\* clause is still to run)
SvUnlock ==
    /\ Alive
    /\ ui_pc = "sv_unlock"
    /\ mutex' = "free"
    /\ ui' = [ui EXCEPT !.ret = "True"]
    /\ ui_pc' = ui.after
    /\ UNCHANGED <<chat_vars, known_names, known_encodings, db_file, backup_file, thread_vars,
                   device, stop_signalled>>

---------------------------------------------------------------------------
(* FaceChatMainWindow.register_new_user -> VideoThread.register_user ->     *)
(* FaceRecognitionManager.register_new_user(name)                          *)

StartRegister ==
    /\ Alive
    /\ ui_pc = "idle"
    /\ Len(known_names) < MaxStore
    /\ Len(known_encodings) < MaxStore
    /\ \E n \in Names : ui' = [UiInit EXCEPT !.op = "register", !.name = n]
    /\ ui_pc' = "reg_open"
    /\ UNCHANGED <<chat_vars, store_vars, thread_vars, device, stop_signalled>>

\* cap = cv2.VideoCapture(0); best_encoding = None; best_confidence = inf
RegOpen ==
    /\ Alive
    /\ ui_pc = "reg_open"
    /\ ui' = [ui EXCEPT !.cap = "open", !.best_encoding = <<>>,
                        !.best_confidence = Infinity, !.attempt = 0]
    /\ device' = device \cup {"ui"}
    /\ ui_pc' = "reg_attempt"
    /\ UNCHANGED <<chat_vars, store_vars, thread_vars, stop_signalled>>

\* the distance of a candidate to the store, as the attempt computes it
MinDistance(encodings, encoding) ==
    IF Len(encodings) > 0 THEN npmin(face_distance(encodings, encoding)) ELSE 0

\* a faulty variant: <= where the code has <, which keeps the last of
\* several candidates at the same distance
KeepsCandidateOrEqual(min_distance, best_confidence) ==
    min_distance <= best_confidence

\* if min_distance < best_confidence: keep this encoding
KeepsCandidate(min_distance, best_confidence) == min_distance < best_confidence

\* where register_new_user goes when the loop is over:
\* if best_encoding is not None: append ...; else: return False
AfterLoop(best_encoding) ==
    IF best_encoding # <<>> THEN "reg_append_enc" ELSE "reg_release"

\* one turn of `for attempt in range(max_attempts)`: cap.read(), detection,
\* and the comparison with the best candidate so far
RegAttempt ==
    /\ Alive
    /\ ui_pc = "reg_attempt"
    /\ ui.attempt < MaxAttempts
    /\ \E ret \in BOOLEAN, f \in RegFrames :
          LET seen == ret /\ Len(f) = 1
              encoding == f[1]
              min_distance == MinDistance(known_encodings, encoding)
              keep == seen /\ KeepsCandidate(min_distance, ui.best_confidence)
              best == IF keep THEN <<encoding>> ELSE ui.best_encoding
              last == ui.attempt + 1 = MaxAttempts
          IN  /\ ~ret => f = <<>>
              /\ ui' = [ui EXCEPT
                          !.attempt = ui.attempt + 1,
                          !.candidates = IF seen THEN Append(@, encoding) ELSE @,
                          !.best_confidence = IF keep THEN min_distance ELSE @,
                          !.best_encoding = best,
                          !.ret = IF last /\ best = <<>> THEN "False" ELSE @]
              /\ ui_pc' = IF last THEN AfterLoop(best) ELSE "reg_attempt"
    /\ UNCHANGED <<chat_vars, store_vars, thread_vars, device, stop_signalled>>

\* self.known_encodings.append(best_encoding)
RegAppendEnc ==
    /\ Alive
    /\ ui_pc = "reg_append_enc"
    /\ known_encodings' = Append(known_encodings, ui.best_encoding[1])
    /\ ui_pc' = "reg_append_name"
    /\ UNCHANGED <<chat_vars, known_names, mutex, db_file, backup_file, thread_vars, ui, device,
                   stop_signalled>>

\* self.known_names.append(name); self.save_database()
RegAppendName ==
    /\ Alive
    /\ ui_pc = "reg_append_name"
    /\ known_names' = Append(known_names, ui.name)
    /\ ui_pc' = "sv_lock"
    /\ ui' = [ui EXCEPT !.after = "reg_release"]
    /\ UNCHANGED <<chat_vars, known_encodings, mutex, db_file, backup_file, thread_vars, device,
                   stop_signalled>>

\* finally: cap.release(); the caller has the value in ui.ret
RegRelease ==
    /\ Alive
    /\ ui_pc = "reg_release"
    /\ ui' = UiInit
    /\ device' = device \ {"ui"}
    /\ ui_pc' = "idle"
    /\ UNCHANGED <<chat_vars, store_vars, thread_vars, stop_signalled>>

---------------------------------------------------------------------------
(* FaceRecognitionManager.remove_user(name) *)

StartRemove ==
    /\ Alive
    /\ ui_pc = "idle"
    /\ \E n \in Names : ui' = [UiInit EXCEPT !.op = "remove", !.name = n]
    /\ ui_pc' = "rm_lock"
    /\ UNCHANGED <<chat_vars, store_vars, thread_vars, device, stop_signalled>>

\* self.mutex.lock()
RmLock ==
    /\ Alive
    /\ ui_pc = "rm_lock"
    /\ mutex = "free"
    /\ mutex' = "ui"
    /\ ui_pc' = "rm_find"
    /\ UNCHANGED <<chat_vars, known_names, known_encodings, db_file, backup_file, thread_vars,
                   ui, device, stop_signalled>>

\* if name in self.known_names: index = ...index(name); self.known_names.pop(index)
\* else: return False   (the finally clause is still to run)
RmFind ==
    /\ Alive
    /\ ui_pc = "rm_find"
    /\ IF Contains(known_names, ui.name)
       THEN LET index == IndexOf(known_names, ui.name)
            IN  /\ known_names' = Pop(known_names, index)
                /\ ui' = [ui EXCEPT !.index = index]
                /\ ui_pc' = "rm_pop_enc"
       ELSE /\ known_names' = known_names
            /\ ui' = [ui EXCEPT !.ret = "False"]
            /\ ui_pc' = "rm_unlock"
    /\ UNCHANGED <<chat_vars, known_encodings, mutex, db_file, backup_file, thread_vars, device,
                   stop_signalled>>

\* self.known_encodings.pop(index); self.save_database()
\* (an IndexError goes to the except clause, and from there to return False)
RmPopEnc ==
    /\ Alive
    /\ ui_pc = "rm_pop_enc"
    /\ IF ui.index <= Len(known_encodings)
       THEN /\ known_encodings' = Pop(known_encodings, ui.index)
            /\ ui' = [ui EXCEPT !.after = "rm_unlock"]
            /\ ui_pc' = "sv_lock"
       ELSE /\ known_encodings' = known_encodings
            /\ ui' = [ui EXCEPT !.ret = "False"]
            /\ ui_pc' = "rm_unlock"
    /\ UNCHANGED <<chat_vars, known_names, mutex, db_file, backup_file, thread_vars, device,
                   stop_signalled>>

\* finally: self.mutex.unlock(); the caller has the value in ui.ret
RmUnlock ==
    /\ Alive
    /\ ui_pc = "rm_unlock"
    /\ mutex' = "free"
    /\ ui' = UiInit
    /\ ui_pc' = "idle"
    /\ UNCHANGED <<chat_vars, known_names, known_encodings, db_file, backup_file, thread_vars,
                   device, stop_signalled>>

---------------------------------------------------------------------------
(* VideoThread.stop, called alone (closeEvent) or by refresh_camera *)

StartStop ==
    /\ Alive
    /\ ui_pc = "idle"
    /\ ui' = [UiInit EXCEPT !.op = "stop"]
    /\ ui_pc' = "st_clear"
    /\ UNCHANGED <<chat_vars, store_vars, thread_vars, device, stop_signalled>>

StartRefresh ==
    /\ Alive
    /\ ui_pc = "idle"
    /\ ui' = [UiInit EXCEPT !.op = "refresh"]
    /\ ui_pc' = "st_clear"
    /\ UNCHANGED <<chat_vars, store_vars, thread_vars, device, stop_signalled>>

\* a faulty variant: the flag is flipped where the code clears it
StClearFlipped ==
    /\ Alive
    /\ ui_pc = "st_clear"
    /\ running' = ~running
    /\ stop_signalled' = TRUE
    /\ ui_pc' = "st_wait"
    /\ UNCHANGED <<chat_vars, store_vars, cap, vt_pc, vt, ui, device>>

\* self.running = False
StClear ==
    /\ Alive
    /\ ui_pc = "st_clear"
    /\ running' = FALSE
    /\ stop_signalled' = TRUE
    /\ ui_pc' = "st_wait"
    /\ UNCHANGED <<chat_vars, store_vars, cap, vt_pc, vt, ui, device>>

\* self.wait(): returns once run() has returned
StWait ==
    /\ Alive
    /\ ui_pc = "st_wait"
    /\ vt_pc = "finished"
    /\ ui_pc' = IF ui.op = "refresh" THEN "rf_new" ELSE "idle"
    /\ ui' = IF ui.op = "refresh" THEN ui ELSE UiInit
    /\ UNCHANGED <<chat_vars, store_vars, thread_vars, device, stop_signalled>>

---------------------------------------------------------------------------
(* refresh_camera after stop(): VideoThread() builds a new                  *)
(* FaceRecognitionManager, which loads the database; then start()          *)

\* VideoThread.__init__ / FaceRecognitionManager.__init__ up to load_database
RfNew ==
    /\ Alive
    /\ ui_pc = "rf_new"
    /\ known_names' = <<>>
    /\ known_encodings' = <<>>
    /\ mutex' = "free"
    /\ running' = FALSE
    /\ cap' = "None"
    /\ vt_pc' = "new"
    /\ stop_signalled' = FALSE
    /\ ui_pc' = "ld_lock"
    /\ UNCHANGED <<chat_vars, db_file, backup_file, vt, ui, device>>

\* load_database: self.mutex.lock()
LdLock ==
    /\ Alive
    /\ ui_pc = "ld_lock"
    /\ mutex = "free"
    /\ mutex' = "ui"
    /\ ui_pc' = "ld_read"
    /\ UNCHANGED <<chat_vars, known_names, known_encodings, db_file, backup_file, thread_vars,
                   ui, device, stop_signalled>>

\* load_database: read the file, or start empty (no file, or an exception)
LdRead ==
    /\ Alive
    /\ ui_pc = "ld_read"
    /\ known_names' = LoadedNames(db_file)
    /\ known_encodings' = LoadedEncodings(db_file)
    /\ ui_pc' = "ld_unlock"
    /\ UNCHANGED <<chat_vars, mutex, db_file, backup_file, thread_vars, ui, device,
                   stop_signalled>>

\* load_database: finally: self.mutex.unlock()
LdUnlock ==
    /\ Alive
    /\ ui_pc = "ld_unlock"
    /\ mutex' = "free"
    /\ ui_pc' = "rf_start"
    /\ UNCHANGED <<chat_vars, known_names, known_encodings, db_file, backup_file, thread_vars,
                   ui, device, stop_signalled>>

\* self.video_thread.start()
RfStart ==
    /\ Alive
    /\ ui_pc = "rf_start"
    /\ vt_pc' = "open"
    /\ ui_pc' = "idle"
    /\ ui' = UiInit
    /\ UNCHANGED <<chat_vars, store_vars, running, cap, vt, device, stop_signalled>>

UiNext ==
    \/ StartRegister \/ RegOpen \/ RegAttempt \/ RegAppendEnc \/ RegAppendName
    \/ RegRelease
    \/ SvLock \/ SvBackup \/ SvWrite \/ SvUnlock
    \/ StartRemove \/ RmLock \/ RmFind \/ RmPopEnc \/ RmUnlock
    \/ StartStop \/ StartRefresh \/ StClear \/ StWait
    \/ RfNew \/ LdLock \/ LdRead \/ LdUnlock \/ RfStart

Next == VtNext \/ UiNext

Spec == Init /\ [][Next]_vars

---------------------------------------------------------------------------
(* register and match, one at a time: the interactive thread runs a        *)
(* registration only while the capture thread is between two frames, and    *)
(* the capture thread runs only while the interactive thread is idle.       *)
(* Frames show at most one face.                                            *)

\* the capture thread is between two frames: about to call cap.read()
BetweenFrames == vt_pc = "read"

\* the interactive thread is between two operations
UiIdle == ui_pc = "idle"

RegisterNext ==
    \/ UiIdle /\ VtOpen
    \/ UiIdle /\ VtSetRunning
    \/ UiIdle /\ VtLoopTest
    \/ UiIdle /\ VtRead
    \/ UiIdle /\ VtCompare
    \/ UiIdle /\ VtTest
    \/ UiIdle /\ VtDistance
    \/ UiIdle /\ VtPick
    \/ UiIdle /\ VtEmit
    \/ BetweenFrames /\ StartRegister
    \/ BetweenFrames /\ RegOpen
    \/ BetweenFrames /\ RegAttempt
    \/ BetweenFrames /\ RegAppendEnc
    \/ BetweenFrames /\ RegAppendName
    \/ BetweenFrames /\ RegRelease
    \/ BetweenFrames /\ SvLock
    \/ BetweenFrames /\ SvBackup
    \/ BetweenFrames /\ SvWrite
    \/ BetweenFrames /\ SvUnlock

RegisterSpec == Init /\ [][RegisterNext]_vars

---------------------------------------------------------------------------
(* The capture loop alone, on frames of any number of faces; nothing stops  *)
(* it.                                                                      *)

CrowdNext ==
    \/ VtOpen \/ VtSetRunning \/ VtLoopTest \/ VtRead \/ VtReadCrowd
    \/ VtCompare \/ VtTest \/ VtDistance \/ VtPick \/ VtEmit

CrowdSpec == Init /\ [][CrowdNext]_vars

---------------------------------------------------------------------------
(* Registrations whose saves succeed: the rename to the backup name and the *)
(* write of the file raise nothing.  The capture thread has not started.    *)

\* os.rename succeeds, or there is no file to rename
SvBackupDone == SvBackup /\ ui_pc' = "sv_write"

\* open and pickle.dump succeed
SvWriteDone == SvWrite /\ ~ui'.save_failed

SaveNext ==
    \/ StartRegister \/ RegOpen \/ RegAttempt \/ RegAppendEnc \/ RegAppendName
    \/ RegRelease \/ SvLock \/ SvBackupDone \/ SvWriteDone \/ SvUnlock

SaveSpec == Init /\ [][SaveNext]_vars

---------------------------------------------------------------------------
(* The capture loop and stop() / refresh_camera alone: nothing writes the   *)
(* store.  Both threads are scheduled: a thread that can take a step of an  *)
(* operation it has begun eventually takes one.                             *)

UiStopSteps ==
    \/ StClear \/ StWait \/ RfNew \/ LdLock \/ LdRead \/ LdUnlock \/ RfStart

LoopNext == VtNext \/ StartStop \/ StartRefresh \/ UiStopSteps

LoopSpec ==
    Init /\ [][LoopNext]_vars /\ WF_vars(VtNext) /\ WF_vars(UiStopSteps)

---------------------------------------------------------------------------
(* ChatbotManager *)

\* session_context after the "Update session context" block: the entry of a
\* known user is created at 0 if missing, then its message_count goes up
\* (an entry is its message_count; its topics list is never written)
UpdateContext(context, user_name) ==
    IF user_name # NoName
    THEN [n \in DOMAIN context \cup {user_name} |->
            IF n = user_name
            THEN (IF n \in DOMAIN context THEN context[n] ELSE 0) + 1
            ELSE context[n]]
    ELSE context

\* first-time greeting: category 'greetings' and message_count == 1
FirstGreeting(category, context, user_name) ==
    category = "greetings" /\ context[user_name] = 1

\* the values get_response may return for a message of this category: a
\* canned string drawn by random.choice, personalized for a known user
Personalized(category, context, user_name) ==
    LET known == user_name # NoName /\ category # "goodbye"
        first == known /\ FirstGreeting(category, context, user_name)
        hello == IF first THEN user_name ELSE NoName
        tail == IF known /\ ~first /\ category \in {"questions", "help_requests"}
                THEN user_name ELSE NoName
    IN  {Canned(category, choice, hello, tail) : choice \in 1..responses[category]}

\* the values get_response may return for a message that, lower-cased and
\* stripped, is empty (category "none") or has this category
Responses(category, context, user_name) ==
    IF category = "none"
    THEN {EmptyPrompt}
    ELSE Personalized(category, context, user_name)

\* message.lower().strip(), and the category get_response finds for it
\* (none when nothing is left of the message)
CategoryOf(message) ==
    LET message_lower == Strip(Lower(message))
    IN  IF message_lower = <<>> THEN "none" ELSE categorize_message(message_lower)

\* get_response(message, user_name); a turn of the history is its speaker
\* (the text and the timestamp are written and never read back)
GetResponse ==
    /\ Len(conversation_history) < MaxHistory
    /\ \E message \in Messages :
          \E category \in {CategoryOf(message)}, user_name \in Names \cup {NoName} :
             LET context == UpdateContext(session_context, user_name)
             IN  /\ conversation_history' =
                       Append(conversation_history,
                              IF user_name # NoName THEN user_name ELSE "Unknown")
                 /\ session_context' = context
                 /\ call' = [message |-> message, user_name |-> user_name,
                             made |-> TRUE]
                 /\ response' \in Responses(category, context, user_name)
                 /\ greeted' = IF user_name # NoName /\ category = "greetings"
                               THEN greeted \cup {user_name}
                               ELSE greeted
    /\ UNCHANGED <<app_vars, categorized>>

\* clear_history(user_name): the user's turns and context entry, or everything
ClearHistory ==
    /\ \E user_name \in Names \cup {NoName} :
          IF user_name # NoName
          THEN /\ conversation_history' =
                     SelectSeq(conversation_history, LAMBDA u : u # user_name)
               /\ session_context' =
                     [n \in DOMAIN session_context \ {user_name} |-> session_context[n]]
               /\ greeted' = greeted \ {user_name}
          ELSE /\ conversation_history' = <<>>
               /\ session_context' = [n \in {} |-> 0]
               /\ greeted' = {}
    /\ call' = NoCall
    /\ UNCHANGED <<response, app_vars, categorized>>

ChatNext == GetResponse \/ ClearHistory

\* the chatbot does not read the store: one start of the application is enough
ChatInit == Init /\ db_file = NoFile

ChatSpec == ChatInit /\ [][ChatNext]_vars

---------------------------------------------------------------------------
(* ChatbotManager._categorize_message, called alone on a text *)

\* one call in a run: the function keeps no state between calls
Categorize ==
    /\ ~categorized.made
    /\ \E message \in Texts :
          categorized' = [message |-> message,
                          category |-> categorize_message(message),
                          made |-> TRUE]
    /\ UNCHANGED <<app_vars, conversation_history, session_context, call, response,
                   greeted>>

CategorizeSpec == ChatInit /\ [][Categorize]_vars

---------------------------------------------------------------------------
(* Properties of the identity store under the two threads (Spec) *)

\* the interactive thread is inside the part of register_new_user,
\* remove_user or load_database that reads or writes the store
UiInStore ==
    ui_pc \in {"reg_attempt", "reg_append_enc", "reg_append_name", "rm_find",
               "rm_pop_enc", "ld_read"}

\* C1: every access to known_names / known_encodings by load_database,
\* identify_face, register_new_user and remove_user is made by a thread that
\* holds the store mutex, so the capture thread and the interactive thread are
\* never inside a store operation at the same time.
C1_StoreAccessUnderMutex ==
    /\ VtInStore => mutex = "cap"
    /\ UiInStore => mutex = "ui"
    /\ ~(VtInStore /\ UiInStore)

\* remove_user waits for a mutex that its own thread holds: QMutex is not
\* recursive, so the wait never ends
RemoveBlocked == ui.op = "remove" /\ ui_pc = "sv_lock" /\ mutex = "ui"

\* C2: every remove_user(name) call returns: True with the entry deleted and
\* the store persisted when the name was stored, False with the store left
\* alone when it was not; in particular the call never waits forever for the
\* store mutex.
C2_RemoveUserReturns ==
    /\ ~RemoveBlocked
    /\ (ui.op = "remove" /\ ui_pc = "rm_unlock" /\ ui.index > 0) =>
          /\ ui.ret = "True"
          /\ Len(known_names) = Len(known_encodings)
          /\ db_file = Pickle(known_names, known_encodings)
    /\ (ui.op = "remove" /\ ui_pc = "rm_unlock" /\ ui.index = 0) =>
          /\ ui.ret = "False"
          /\ ~Contains(known_names, ui.name)

\* C5: while the capture loop holds the capture device (between its open and
\* its release), no operation of the interactive thread holds or reads it.
C5_LoopOwnsDevice ==
    "cap" \in device => ("ui" \notin device /\ ui.cap # "open")

\* C6: the names of the store are pairwise distinct.
C6_NamesUnique ==
    \A i, j \in 1..Len(known_names) : known_names[i] = known_names[j] => i = j

\* the value of a mutating operation is decided and its disk write failed
ReturnsAfterFailedSave ==
    ui_pc \in {"reg_release", "rm_unlock"} /\ ui.save_failed

\* C8: when the disk write fails during register or remove, the operation
\* returns False, and the in-memory store keeps the mutation made before the
\* write (for register: the new entry is the last of the store).
C8_FailedSaveReported ==
    ReturnsAfterFailedSave =>
        /\ ui.ret = "False"
        /\ ui.op = "register" =>
              /\ Len(known_names) > 0 /\ Len(known_encodings) > 0
              /\ known_names[Len(known_names)] = ui.name
              /\ known_encodings[Len(known_encodings)] = ui.best_encoding[1]

---------------------------------------------------------------------------
(* Properties of the capture loop (LoopSpec) *)

\* stop() has returned for the current VideoThread
StopReturned == stop_signalled /\ ui_pc \notin {"st_clear", "st_wait"}

\* C3: whenever stop() is called on a started capture loop, in every
\* interleaving with run(), the loop eventually exits, the capture device is
\* released and stop() returns; after stop() has returned no capture cycle runs.
C3_StopTerminates ==
    /\ (ui_pc = "st_wait") ~>
          (vt_pc = "finished" /\ "cap" \notin device /\ ui_pc # "st_wait")
    /\ [](StopReturned => (vt_pc = "finished" /\ "cap" \notin device))

\* the lifecycle of the current VideoThread, read off its state
Phase ==
    CASE vt_pc \in {"new", "open", "set_running"} -> "idle"
      [] vt_pc = "finished" -> "stopped"
      [] vt_pc = "crashed" -> "crashed"
      [] running -> "running"
      [] OTHER -> "stopping"

\* the lifecycle moves along idle -> running -> stopping -> stopped (and a
\* new VideoThread starts idle)
LifecycleOrder ==
    Phase' # Phase =>
        <<Phase, Phase'>> \in {<<"idle", "running">>, <<"running", "stopping">>,
                               <<"stopping", "stopped">>, <<"stopped", "idle">>}

\* stop() is the only cause of leaving running
OnlyStopLeavesRunning ==
    (Phase = "running" /\ Phase' # "running") => (ui_pc = "st_clear" /\ ~running')

\* the device is released exactly on the step stopping -> stopped
ReleaseOnStopped ==
    ("cap" \in device /\ "cap" \notin device') <=>
        (Phase = "stopping" /\ Phase' = "stopped")

\* once stop() has cleared the running flag of a VideoThread, the flag is not
\* set again
NoRestartAfterStop ==
    (stop_signalled /\ stop_signalled') => ~(~running /\ running')

\* C4: the loop's lifecycle only moves along idle -> running -> stopping ->
\* stopped: stop() is the only cause of leaving running, the device is
\* released exactly on stopping -> stopped, and after stop() has signalled
\* termination the running flag is never set true again.
C4_Lifecycle ==
    [][/\ LifecycleOrder
       /\ OnlyStopLeavesRunning
       /\ ReleaseOnStopped
       /\ NoRestartAfterStop]_vars

---------------------------------------------------------------------------
(* Properties of register and match (RegisterSpec) *)

\* identify_face has returned for a frame with one face, and the store (whose
\* last entry is the one the latest registration appended) has not changed
\* since the call began
MatchedOneFace ==
    /\ vt_pc = "emit"
    /\ ui_pc = "idle"
    /\ Len(vt.frame) = 1
    /\ Len(known_names) > 0
    /\ Len(known_names) = Len(known_encodings)

\* the query is below the threshold from the entry registered last
NearLast(q) ==
    Distance(q, known_encodings[Len(known_encodings)]) < recognition_threshold

\* every entry stored before the last is farther from the query than the last
EarlierFarther(q) ==
    \A i \in 1..(Len(known_encodings) - 1) :
        Distance(q, known_encodings[i]) >
            Distance(q, known_encodings[Len(known_encodings)])

\* the first entry at the least distance from the query
FirstNearest(q) ==
    CHOOSE i \in 1..Len(known_encodings) :
        /\ \A j \in 1..Len(known_encodings) :
              Distance(q, known_encodings[i]) <= Distance(q, known_encodings[j])
        /\ \A j \in 1..(i - 1) :
              Distance(q, known_encodings[j]) > Distance(q, known_encodings[i])

\* C7 as stated: after a successful register(name), a match with a signature
\* below the threshold from the stored one returns that name, whatever else
\* the store holds.
C7_RegisterThenMatch ==
    (MatchedOneFace /\ NearLast(vt.frame[1])) =>
        vt.name = known_names[Len(known_names)]

\* C7 as amended: the match returns the name of the first entry at the least
\* distance from the query; that is the name just registered when every
\* entry stored earlier is farther from the query than the new one.
C7_RegisterThenMatchNearest ==
    (MatchedOneFace /\ NearLast(vt.frame[1])) =>
        /\ vt.name = known_names[FirstNearest(vt.frame[1])]
        /\ EarlierFarther(vt.frame[1]) => vt.name = known_names[Len(known_names)]

\* a match that returns the name registered last although the store holds
\* another name, at a signature farther from the query
C7_Witness ==
    /\ MatchedOneFace
    /\ Len(known_names) = 2
    /\ known_names[1] # known_names[2]
    /\ vt.frame[1] # known_encodings[2]
    /\ NearLast(vt.frame[1])
    /\ EarlierFarther(vt.frame[1])
    /\ vt.name = known_names[2]

\* a registration has appended its signature: the store before it, and the
\* candidates it gathered
Appended ==
    /\ ui.op = "register"
    /\ ui_pc \in {"reg_append_name", "sv_lock", "sv_backup", "sv_write", "sv_unlock"}
Before == SubSeq(known_encodings, 1, Len(known_encodings) - 1)
Newest == known_encodings[Len(known_encodings)]

\* the least distance from a signature to the entries of a store (0 for an
\* empty store, as the code has it)
Nearness(encodings, c) ==
    IF Len(encodings) = 0 THEN 0
    ELSE CHOOSE d \in {Distance(encodings[i], c) : i \in 1..Len(encodings)} :
            \A i \in 1..Len(encodings) : d <= Distance(encodings[i], c)

\* C9 as stated: the signature appended is the candidate whose minimum
\* distance to the entries already in the store is largest.
C9_AppendsMostDistinct ==
    Appended =>
        \A k \in 1..Len(ui.candidates) :
            Nearness(Before, ui.candidates[k]) <= Nearness(Before, Newest)

\* C9 as amended: the signature appended is the candidate whose minimum
\* distance to the entries already in the store is smallest, the first
\* gathered among several such.
C9_AppendsNearest ==
    Appended =>
        \E k \in 1..Len(ui.candidates) :
            /\ ui.candidates[k] = Newest
            /\ \A j \in 1..Len(ui.candidates) :
                  Nearness(Before, ui.candidates[j]) >= Nearness(Before, Newest)
            /\ \A j \in 1..(k - 1) :
                  Nearness(Before, ui.candidates[j]) > Nearness(Before, Newest)

\* a registration that chose between two candidates at different distances
\* from a store that is not empty, and appended the nearer one, gathered second
C9_Witness ==
    /\ Appended
    /\ Len(Before) > 0
    /\ Len(ui.candidates) = 2
    /\ Newest = ui.candidates[2]
    /\ Nearness(Before, ui.candidates[1]) > Nearness(Before, ui.candidates[2])

---------------------------------------------------------------------------
(* Properties of the chatbot (ChatSpec) *)

\* this step is a call of get_response whose message, lower-cased and
\* stripped, is empty
BlankCall ==
    /\ call'.made
    /\ Len(conversation_history') = Len(conversation_history) + 1
    /\ Strip(Lower(call'.message)) = <<>>

\* C10: for an empty or all-whitespace message and any user name,
\* get_response returns the fixed prompt, changes no message_count in
\* session_context and creates no session_context entry.
C10_BlankMessageLeavesCounters ==
    [][BlankCall => (response' = EmptyPrompt /\ session_context' = session_context)]_vars

\* this step is a call of get_response by a known name whose message is
\* categorized as a greeting
GreetingCall ==
    /\ call'.made
    /\ Len(conversation_history') = Len(conversation_history) + 1
    /\ call'.user_name # NoName
    /\ CategoryOf(call'.message) = "greetings"

\* C11: in a session, the first greeting of a known name gets "Hello <name>! "
\* prepended whatever non-greeting or empty messages the name sent before,
\* and later greetings of that name do not.
C11_FirstGreetingSaluted ==
    [][GreetingCall =>
          (response'.hello = call'.user_name <=> call'.user_name \notin greeted)]_vars

---------------------------------------------------------------------------
(* Properties of the store's file (RegisterSpec, SaveSpec) *)

\* the interactive thread is at the backup rename or the write of the file
UiAtDiskWrite == ui_pc \in {"sv_backup", "sv_write"}

\* C12: the store mutex is held for the in-memory part of a store operation
\* only: no thread holds it while it renames or writes the store file or
\* while it captures a frame.
C12_NoMutexAcrossIO ==
    /\ UiAtDiskWrite => mutex # "ui"
    /\ ui_pc = "reg_attempt" => mutex # "ui"
    /\ vt_pc = "read" => mutex # "cap"

\* the store without the entry appended last
Previous ==
    Pickle(SubSeq(known_names, 1, Len(known_names) - 1),
           SubSeq(known_encodings, 1, Len(known_encodings) - 1))

\* no mutation of the store is waiting for its save to finish
InSync == ui_pc \notin {"reg_append_name", "sv_lock", "sv_backup", "sv_write"}

\* C13: on every save the existing file is renamed to the .backup name before
\* the new file is written; after successful saves the store file holds the
\* current (names, signatures) pairs and the .backup file holds what the save
\* before the last one wrote, one generation only.
C13_BackupRotation ==
    /\ ui_pc = "sv_write" =>
          /\ ~db_file.exists
          /\ Len(known_names) >= 2 => backup_file = Previous
    /\ (InSync /\ Len(known_names) >= 1) =>
          db_file = Pickle(known_names, known_encodings)
    /\ (InSync /\ Len(known_names) >= 2) => backup_file = Previous

\* the second save of a run has returned: the file holds both entries and the
\* backup the one entry that the first save wrote
C13_Witness ==
    /\ ui_pc = "sv_unlock"
    /\ Len(known_names) = 2
    /\ known_names[1] = "b"
    /\ db_file = Pickle(known_names, known_encodings)
    /\ backup_file = Previous
    /\ backup_file # db_file

---------------------------------------------------------------------------
(* Properties of a repeated stop() (LoopSpec) *)

\* a stop() of the current VideoThread has cleared the flag and run() has
\* returned: the loop is stopped
StoppedLoop == stop_signalled /\ vt_pc = "finished"

\* stop() is called again on a stopped loop
SecondStop == StoppedLoop /\ ui.op = "stop" /\ ui_pc = "st_clear"

\* the state a stop() leaves behind when it returns
AfterStop ==
    /\ StoppedLoop
    /\ ui_pc = "idle" /\ ui = UiInit
    /\ ~running /\ cap = "released" /\ "cap" \notin device

\* C14: a second stop() on a capture loop that a first stop() has stopped
\* raises nothing and returns, and leaves the loop stopped with the device
\* released: no step of it changes the thread, the device or the store, so
\* the state after it is the state after the first.
C14_StopTwice ==
    /\ [][(StoppedLoop /\ ui.op = "stop" /\ ui_pc \in {"st_clear", "st_wait"}) =>
             /\ UNCHANGED <<store_vars, thread_vars, device, stop_signalled, chat_vars>>
             /\ ~running /\ "cap" \notin device
             /\ ui_pc' = "idle" => ui' = UiInit]_vars
    /\ SecondStop ~> AfterStop

\* the second stop() is under way on a loop that is stopped and released
C14_Witness ==
    /\ SecondStop
    /\ ~running /\ cap = "released" /\ "cap" \notin device

---------------------------------------------------------------------------
(* Properties of _categorize_message (CategorizeSpec) *)

\* the word occurs in the text as a run of consecutive characters
Occurs(word, text) ==
    \E i \in 1..(Len(text) - Len(word) + 1) :
        \A j \in 1..Len(word) : text[i + j - 1] = word[j]

\* the categories whose keyword list holds a keyword that occurs in the text
CategoriesHit(text) ==
    {keywords[c].category : c \in
        {d \in 1..Len(keywords) :
            \E k \in 1..Len(keywords[d].words) : Occurs(keywords[d].words[k], text)}}

\* C15: for a text in which a keyword occurs and whose occurring keywords all
\* belong to the list of one category only, _categorize_message returns that
\* category, never another one and never 'default'.
C15_SingleCategory ==
    (categorized.made /\ Cardinality(CategoriesHit(categorized.message)) = 1) =>
        categorized.category \in CategoriesHit(categorized.message)

\* 'goodbye' holds two keywords, both of the category goodbye, and is given
\* that category
C15_Witness ==
    /\ categorized.made
    /\ categorized.message = <<"g", "o", "o", "d", "b", "y", "e">>
    /\ CategoriesHit(categorized.message) = {"goodbye"}
    /\ categorized.category = "goodbye"

---------------------------------------------------------------------------
(* Properties of the parallel lists as the capture thread sees them (Spec) *)

\* C16: in every state the capture thread can observe inside identify_face
\* while the interactive thread runs register or remove, known_names and
\* known_encodings have the same length, and identify_face never fails on an
\* index that one of the lists does not have.
C16_ParallelListsAligned ==
    /\ (VtInStore /\ ui.op \in {"register", "remove"}) =>
          Len(known_names) = Len(known_encodings)
    /\ vt_pc # "crashed"

---------------------------------------------------------------------------
(* Properties of identify_face on several faces (CrowdSpec) *)

\* identify_face has returned for a frame with several faces
MatchedCrowd == vt_pc = "emit" /\ Len(vt.frame) >= 2

\* the name of the first face, in detection order, that matched a stored
\* entry; None when no face matched
FirstRecognized(face_names) ==
    IF \E i \in 1..Len(face_names) : face_names[i] # NoName
    THEN face_names[CHOOSE i \in 1..Len(face_names) :
                        /\ face_names[i] # NoName
                        /\ \A j \in 1..(i - 1) : face_names[j] = NoName]
    ELSE NoName

\* C17: for a frame with several detected faces identify_face returns the
\* name of the first face in detection order that matched a stored entry, and
\* None only when no detected face matched.
C17_FirstRecognizedName ==
    MatchedCrowd => vt.name = FirstRecognized(vt.face_names)

============================================================================
